---- MODULE Spec2Model ----
(***************************************************************************)
(* Return-type resolution and dispatch of the array functions of           *)
(* datafusion/functions-array/src/udf.rs.                                  *)
(*                                                                         *)
(* A DataType is modelled as the sequence of its kinds from the outermost  *)
(* container to the scalar leaf: List(List(Int64)) is                      *)
(* <<"List", "List", "Int64">> and Int64 is <<"Int64">>.  Every Field the  *)
(* file builds is Field::new("item", t, true), so the field name and the   *)
(* nullability carry no information; the length of a FixedSizeList is      *)
(* never inspected by the file (it matches FixedSizeList(_, _)).           *)
(***************************************************************************)
EXTENDS Integers, Sequences, FiniteSets, TLC

\* Longest argument tuple a call is made with.
MaxArgs == 3
\* Deepest nesting of the List types that calls are made with.
MaxDepth == 2

ContainerKinds == {"List", "LargeList", "FixedSizeList"}
ScalarKinds == {"Null", "Int64", "Utf8", "Date32", "Interval"}

Null == <<"Null">>
Int64 == <<"Int64">>
UInt64 == <<"UInt64">>
Utf8 == <<"Utf8">>
Date32 == <<"Date32">>
Interval == <<"Interval">>

\* The tag of a DataType value (what a `match` arm looks at).
Kind(t) == t[1]
\* DataType::List(Arc::new(Field::new("item", t, true))) and its siblings.
Wrap(kind, t) == <<kind>> \o t
\* field.data_type() of a container type.
Elem(t) == Tail(t)
IsContainer(t) == Kind(t) \in ContainerKinds

\* ---- the argument types calls are made with ------------------------------
ListLeaves == {Null, Int64, Utf8}

RECURSIVE NestedLists(_)
NestedLists(d) ==
    IF d = 0 THEN ListLeaves ELSE {Wrap("List", t) : t \in NestedLists(d - 1)}

ListTypes == UNION {NestedLists(d) : d \in 1..MaxDepth}
OtherContainerTypes ==
    {Wrap(k, t) : k \in {"LargeList", "FixedSizeList"}, t \in {Null, Int64}}
DataTypes == {<<s>> : s \in ScalarKinds} \cup ListTypes \cup OtherContainerTypes

ArgTuples == UNION {[1..n -> DataTypes] : n \in 0..MaxArgs}

\* ---- results -------------------------------------------------------------
NoResult == [tag |-> "None", type |-> <<>>, msg |-> ""]
Ok(t) == [tag |-> "Ok", type |-> t, msg |-> ""]
\* plan_err!(msg)
PlanErr(m) == [tag |-> "PlanningFailure", type |-> <<>>, msg |-> m]
\* arg_types[i] past the end of the slice: the thread panics.
Panic == [tag |-> "Panic", type |-> <<>>, msg |-> "index out of bounds"]

NoInvoke == [tag |-> "None", kernel |-> "", include_upper |-> FALSE, msg |-> ""]
Kernel(k, u) == [tag |-> "Kernel", kernel |-> k, include_upper |-> u, msg |-> ""]
\* exec_err!(msg)
ExecErr(m) == [tag |-> "ExecutionFailure", kernel |-> "", include_upper |-> FALSE, msg |-> m]
InvokePanic ==
    [tag |-> "Panic", kernel |-> "", include_upper |-> FALSE, msg |-> "index out of bounds"]

\* ---- collaborators outside this file -------------------------------------
\* arrow's DataType::equals_datatype: structural equality that ignores field
\* names and metadata, which this encoding does not carry.
equals_datatype(a, b) == a = b

\* datafusion_common::utils::list_ndims: 0 for a non-container, 1 + the depth
\* of the element type for a container.
RECURSIVE list_ndims(_)
list_ndims(t) == IF IsContainer(t) THEN 1 + list_ndims(Elem(t)) ELSE 0

\* datafusion_expr::type_coercion::binary::get_wider_type: the common
\* supertype, which is the type itself for equal types and a failure for an
\* unsupported combination.
get_wider_type(lhs, rhs) ==
    IF lhs = rhs THEN Ok(lhs)
    ELSE PlanErr("There is no wider type that can represent both types.")

\* Signature patterns and their matching.
VariadicAny == [pat |-> "VariadicAny"]
VariadicEqual == [pat |-> "VariadicEqual"]
\* TypeSignature::Any(n); the TLC module already defines Any.
AnyOf(n) == [pat |-> "Any", n |-> n]
Exact(ts) == [pat |-> "Exact", types |-> ts]
UniformArray == [pat |-> "UniformArray"]
ArrayAndElement == [pat |-> "ArrayAndElement"]
ElementAndArray == [pat |-> "ElementAndArray"]
OneOf(alts) == [pat |-> "OneOf", alts |-> alts]

RECURSIVE accepts(_, _)
accepts(p, a) ==
    CASE p.pat = "Exact" -> a = p.types
      [] p.pat = "VariadicAny" -> TRUE
      [] p.pat = "VariadicEqual" -> \A i, j \in 1..Len(a) : a[i] = a[j]
      [] p.pat = "Any" -> Len(a) = p.n
      [] p.pat = "UniformArray" -> Len(a) = 1 /\ IsContainer(a[1])
      [] p.pat = "ArrayAndElement" -> Len(a) = 2 /\ IsContainer(a[1])
      [] p.pat = "ElementAndArray" -> Len(a) = 2 /\ IsContainer(a[2])
      [] p.pat = "OneOf" -> \E i \in 1..Len(p.alts) : accepts(p.alts[i], a)

\* ---- the descriptors: new(), name() and aliases() ------------------------
RangeShapes ==
    << Exact(<<Int64>>),
       Exact(<<Int64, Int64>>),
       Exact(<<Int64, Int64, Int64>>),
       Exact(<<Date32, Date32, Interval>>) >>

ArrayToString_new ==
    [signature |-> VariadicAny,
     aliases |-> <<"array_to_string", "list_to_string", "array_join", "list_join">>]

Range_new ==
    [signature |-> OneOf(RangeShapes), aliases |-> <<"range">>]

\* GenSeries registered under the name of its module function only.
GenSeries_new_module_name ==
    [signature |-> OneOf(RangeShapes), aliases |-> <<"gen_series">>]

GenSeries_new ==
    [signature |-> OneOf(RangeShapes),
     aliases |-> <<"generate_series">>]

ArrayDims_new ==
    [signature |-> UniformArray,
     aliases |-> <<"array_dims", "list_dims">>]

Cardinality_new ==
    [signature |-> UniformArray, aliases |-> <<"cardinality">>]

ArrayNdims_new ==
    [signature |-> UniformArray,
     aliases |-> <<"array_ndims", "list_ndims">>]

ArrayAppend_new ==
    [signature |-> ArrayAndElement,
     aliases |-> <<"array_append", "list_append", "array_push_back", "list_push_back">>]

ArrayPrepend_new ==
    [signature |-> ElementAndArray,
     aliases |-> <<"array_prepend", "list_prepend", "array_push_front", "list_push_front">>]

ArrayConcat_new ==
    [signature |-> VariadicAny,
     aliases |-> <<"array_concat", "array_cat", "list_concat", "list_cat">>]

MakeArray_new ==
    [signature |-> OneOf(<<VariadicEqual, AnyOf(0)>>),
     aliases |-> <<"make_array", "make_list">>]

ArrayToString_name == "array_to_string"
Range_name == "range"
GenSeries_name == "generate_series"
ArrayDims_name == "array_dims"
Cardinality_name == "cardinality"
ArrayNdims_name == "array_ndims"
ArrayAppend_name == "array_append"
ArrayPrepend_name == "array_prepend"
ArrayConcat_name == "array_concat"
MakeArray_name == "make_array"

Functions ==
    {"ArrayToString", "Range", "GenSeries", "ArrayDims", "Cardinality",
     "ArrayNdims", "ArrayAppend", "ArrayPrepend", "ArrayConcat", "MakeArray"}

Descriptor(f) ==
    CASE f = "ArrayToString" -> ArrayToString_new
      [] f = "Range" -> Range_new
      [] f = "GenSeries" -> GenSeries_new
      [] f = "ArrayDims" -> ArrayDims_new
      [] f = "Cardinality" -> Cardinality_new
      [] f = "ArrayNdims" -> ArrayNdims_new
      [] f = "ArrayAppend" -> ArrayAppend_new
      [] f = "ArrayPrepend" -> ArrayPrepend_new
      [] f = "ArrayConcat" -> ArrayConcat_new
      [] f = "MakeArray" -> MakeArray_new

name(f) ==
    CASE f = "ArrayToString" -> ArrayToString_name
      [] f = "Range" -> Range_name
      [] f = "GenSeries" -> GenSeries_name
      [] f = "ArrayDims" -> ArrayDims_name
      [] f = "Cardinality" -> Cardinality_name
      [] f = "ArrayNdims" -> ArrayNdims_name
      [] f = "ArrayAppend" -> ArrayAppend_name
      [] f = "ArrayPrepend" -> ArrayPrepend_name
      [] f = "ArrayConcat" -> ArrayConcat_name
      [] f = "MakeArray" -> MakeArray_name

aliases(f) == Descriptor(f).aliases
signature(f) == Descriptor(f).signature

\* ---- return_type ---------------------------------------------------------
ArrayToString_return_type(a) ==
    IF Len(a) = 0 THEN Panic
    ELSE IF IsContainer(a[1]) THEN Ok(Utf8)
    ELSE PlanErr("The array_to_string function can only accept List/LargeList/FixedSizeList.")

\* The element type is fixed to Int64 instead of the first argument's type.
Range_return_type_int64_only(a) ==
    IF Len(a) = 0 THEN Panic ELSE Ok(Wrap("List", Int64))

Range_return_type(a) ==
    IF Len(a) = 0 THEN Panic ELSE Ok(Wrap("List", a[1]))

GenSeries_return_type(a) ==
    IF Len(a) = 0 THEN Panic ELSE Ok(Wrap("List", a[1]))

ArrayDims_return_type(a) ==
    IF Len(a) = 0 THEN Panic
    ELSE IF IsContainer(a[1]) THEN Ok(Wrap("List", UInt64))
    ELSE PlanErr("The array_dims function can only accept List/LargeList/FixedSizeList.")

Cardinality_return_type(a) ==
    IF Len(a) = 0 THEN Panic
    ELSE IF IsContainer(a[1]) THEN Ok(UInt64)
    ELSE PlanErr("The cardinality function can only accept List/LargeList/FixedSizeList.")

\* Only the List arm is matched.
ArrayNdims_return_type_list_only(a) ==
    IF Len(a) = 0 THEN Panic
    ELSE IF Kind(a[1]) = "List" THEN Ok(UInt64)
    ELSE PlanErr("The array_ndims function can only accept List/LargeList/FixedSizeList.")

ArrayNdims_return_type(a) ==
    IF Len(a) = 0 THEN Panic
    ELSE IF IsContainer(a[1]) THEN Ok(UInt64)
    ELSE PlanErr("The array_ndims function can only accept List/LargeList/FixedSizeList.")

ArrayAppend_return_type(a) ==
    IF Len(a) = 0 THEN Panic ELSE Ok(a[1])

ArrayPrepend_return_type(a) ==
    IF Len(a) < 2 THEN Panic ELSE Ok(a[2])

RECURSIVE ArrayConcat_loop(_, _, _, _)

\* One iteration of the loop with a slip in one arm, the rest of the loop as
\* ArrayConcat_loop runs it.
ArrayConcat_loop_slip(a, i, expr_type, max_dims, slip) ==
    IF i > Len(a) THEN [res |-> Ok(expr_type), max_dims |-> max_dims]
    ELSE LET arg_type == a[i] IN
      IF Kind(arg_type) = "List"
      THEN IF slip = "null_checked_as_shape" \/ ~equals_datatype(Elem(arg_type), Null)
           THEN LET dims == list_ndims(arg_type) IN
                IF max_dims > dims
                THEN IF slip = "shallower_adopted"
                     THEN ArrayConcat_loop(a, i + 1, arg_type, max_dims)
                     ELSE ArrayConcat_loop(a, i + 1, expr_type, max_dims)
                ELSE IF max_dims = dims
                THEN LET w == get_wider_type(expr_type, arg_type) IN
                     IF w.tag = "Ok"
                     THEN ArrayConcat_loop(a, i + 1, w.type, max_dims)
                     ELSE [res |-> w, max_dims |-> max_dims]
                ELSE IF slip = "max_dims_not_raised"
                     THEN ArrayConcat_loop(a, i + 1, arg_type, max_dims)
                     ELSE ArrayConcat_loop(a, i + 1, arg_type, dims)
           ELSE ArrayConcat_loop(a, i + 1, expr_type, max_dims)
      ELSE IF slip = "non_list_skipped"
           THEN ArrayConcat_loop(a, i + 1, expr_type, max_dims)
           ELSE [res |-> PlanErr("The array_concat function can only accept list as the args."),
                 max_dims |-> max_dims]

\* Ordering::Greater adopts the shallower argument instead of keeping expr_type.
ArrayConcat_loop_shallower_adopted(a, i, expr_type, max_dims) ==
    ArrayConcat_loop_slip(a, i, expr_type, max_dims, "shallower_adopted")
\* The Null-element test is dropped: List(Null) takes part in the shape.
ArrayConcat_loop_null_checked(a, i, expr_type, max_dims) ==
    ArrayConcat_loop_slip(a, i, expr_type, max_dims, "null_checked_as_shape")
\* The catch-all arm skips the argument instead of failing.
ArrayConcat_loop_non_list_skipped(a, i, expr_type, max_dims) ==
    ArrayConcat_loop_slip(a, i, expr_type, max_dims, "non_list_skipped")
\* Ordering::Less adopts the argument but forgets max_dims = dims.
ArrayConcat_loop_max_dims_not_raised(a, i, expr_type, max_dims) ==
    ArrayConcat_loop_slip(a, i, expr_type, max_dims, "max_dims_not_raised")

\* The loop of ArrayConcat::return_type from argument i on, with the locals
\* expr_type and max_dims; the result carries the final max_dims.
ArrayConcat_loop(a, i, expr_type, max_dims) ==
    IF i > Len(a) THEN [res |-> Ok(expr_type), max_dims |-> max_dims]
    ELSE LET arg_type == a[i] IN
      IF Kind(arg_type) = "List"
      THEN IF ~equals_datatype(Elem(arg_type), Null)
           THEN LET dims == list_ndims(arg_type) IN
                IF max_dims > dims
                THEN ArrayConcat_loop(a, i + 1, expr_type, max_dims)
                ELSE IF max_dims = dims
                THEN LET w == get_wider_type(expr_type, arg_type) IN
                     IF w.tag = "Ok"
                     THEN ArrayConcat_loop(a, i + 1, w.type, max_dims)
                     ELSE [res |-> w, max_dims |-> max_dims]
                ELSE ArrayConcat_loop(a, i + 1, arg_type, dims)
           ELSE ArrayConcat_loop(a, i + 1, expr_type, max_dims)
      ELSE [res |-> PlanErr("The array_concat function can only accept list as the args."),
            max_dims |-> max_dims]

ArrayConcat_return_type(a) == ArrayConcat_loop(a, 1, Null, 0)

RECURSIVE MakeArray_loop(_, _)

\* The loop without its break: the last argument type that is not Null wins.
MakeArray_loop_no_break(a, i) ==
    IF i > Len(a) THEN Null
    ELSE LET rest == MakeArray_loop(a, i + 1) IN
         IF ~equals_datatype(rest, Null) THEN rest
         ELSE IF ~equals_datatype(a[i], Null) THEN a[i] ELSE Null

\* The loop of MakeArray::return_type from argument i on: the first argument
\* type that is not Null, Null when there is none.
MakeArray_loop(a, i) ==
    IF i > Len(a) THEN Null
    ELSE IF ~equals_datatype(a[i], Null) THEN a[i]
    ELSE MakeArray_loop(a, i + 1)

MakeArray_return_type(a) ==
    IF Len(a) = 0 THEN Ok(Wrap("List", Null))
    ELSE Ok(Wrap("List", MakeArray_loop(a, 1)))

\* ---- invoke --------------------------------------------------------------
\* The argument is the sequence of the runtime types of the arrays that
\* ColumnarValue::values_to_arrays produced.
Range_invoke(a) ==
    IF Len(a) = 0 THEN InvokePanic
    ELSE CASE Kind(a[1]) = "Int64" -> Kernel("gen_range", FALSE)
           [] Kind(a[1]) = "Date32" -> Kernel("gen_range_date", FALSE)
           [] OTHER -> ExecErr("unsupported type for range")

\* The Date32 arm is missing.
GenSeries_invoke_no_date(a) ==
    IF Len(a) = 0 THEN InvokePanic
    ELSE CASE Kind(a[1]) = "Int64" -> Kernel("gen_range", TRUE)
           [] OTHER -> ExecErr("unsupported type for range")

GenSeries_invoke(a) ==
    IF Len(a) = 0 THEN InvokePanic
    ELSE CASE Kind(a[1]) = "Int64" -> Kernel("gen_range", TRUE)
           [] Kind(a[1]) = "Date32" -> Kernel("gen_range_date", TRUE)
           [] OTHER -> ExecErr("unsupported type for range")

\* ---- the state machine ---------------------------------------------------
VARIABLES
    pc,         \* "idle", "resolve", "rejected", "resolved", "invoked"
    via,        \* "planner": the call came through the signature check; "direct"
    fn,         \* the descriptor of the call
    arg_types,  \* the static argument types of the call
    accepted,   \* whether the descriptor's signature accepts arg_types
    rtype,      \* the outcome of the planning step
    max_dims,   \* final value of ArrayConcat::return_type's local max_dims
    invoked     \* the outcome of invoke

vars == <<pc, via, fn, arg_types, accepted, rtype, max_dims, invoked>>

Init ==
    /\ pc = "idle"
    /\ via = "none"
    /\ fn = "none"
    /\ arg_types = <<>>
    /\ accepted = FALSE
    /\ rtype = NoResult
    /\ max_dims = 0
    /\ invoked = NoInvoke

\* The planner resolves the function and checks the call's static argument
\* types against the signature; a rejected call is a planning failure and
\* never reaches return_type.
Plan(f, a) ==
    /\ pc = "idle"
    /\ via' = "planner"
    /\ fn' = f
    /\ arg_types' = a
    /\ accepted' = accepts(signature(f), a)
    /\ IF accepted'
       THEN pc' = "resolve" /\ rtype' = NoResult
       ELSE pc' = "rejected" /\ rtype' = PlanErr("signature mismatch")
    /\ UNCHANGED <<max_dims, invoked>>

\* return_type is a public method: a caller other than the planner reaches
\* it with whatever argument types it holds.
Direct(f, a) ==
    /\ pc = "idle"
    /\ via' = "direct"
    /\ fn' = f
    /\ arg_types' = a
    /\ accepted' = accepts(signature(f), a)
    /\ pc' = "resolve"
    /\ UNCHANGED <<rtype, max_dims, invoked>>

PlanCall == pc = "idle" /\ \E f \in Functions, a \in ArgTuples : Plan(f, a)
DirectCall == pc = "idle" /\ \E f \in Functions, a \in ArgTuples : Direct(f, a)

Resolve(f, r, md) ==
    /\ pc = "resolve"
    /\ fn = f
    /\ rtype' = r
    /\ max_dims' = md
    /\ pc' = "resolved"
    /\ UNCHANGED <<via, fn, arg_types, accepted, invoked>>

ArrayToString_return_type_call ==
    Resolve("ArrayToString", ArrayToString_return_type(arg_types), 0)
Range_return_type_call == Resolve("Range", Range_return_type(arg_types), 0)
GenSeries_return_type_call == Resolve("GenSeries", GenSeries_return_type(arg_types), 0)
ArrayDims_return_type_call == Resolve("ArrayDims", ArrayDims_return_type(arg_types), 0)
Cardinality_return_type_call ==
    Resolve("Cardinality", Cardinality_return_type(arg_types), 0)
ArrayNdims_return_type_call ==
    Resolve("ArrayNdims", ArrayNdims_return_type(arg_types), 0)
ArrayAppend_return_type_call ==
    Resolve("ArrayAppend", ArrayAppend_return_type(arg_types), 0)
ArrayPrepend_return_type_call ==
    Resolve("ArrayPrepend", ArrayPrepend_return_type(arg_types), 0)
ArrayConcat_return_type_call ==
    LET r == ArrayConcat_return_type(arg_types) IN
    Resolve("ArrayConcat", r.res, r.max_dims)
MakeArray_return_type_call ==
    Resolve("MakeArray", MakeArray_return_type(arg_types), 0)

\* Execution of a call whose planning produced a type: the arrays handed to
\* invoke have the static argument types.
Range_invoke_call ==
    /\ pc = "resolved"
    /\ fn = "Range"
    /\ rtype.tag = "Ok"
    /\ invoked' = Range_invoke(arg_types)
    /\ pc' = "invoked"
    /\ UNCHANGED <<via, fn, arg_types, accepted, rtype, max_dims>>

GenSeries_invoke_call ==
    /\ pc = "resolved"
    /\ fn = "GenSeries"
    /\ rtype.tag = "Ok"
    /\ invoked' = GenSeries_invoke(arg_types)
    /\ pc' = "invoked"
    /\ UNCHANGED <<via, fn, arg_types, accepted, rtype, max_dims>>

\* The call is over; the next one starts from scratch.
Return ==
    /\ pc \in {"rejected", "resolved", "invoked"}
    /\ pc' = "idle"
    /\ via' = "none"
    /\ fn' = "none"
    /\ arg_types' = <<>>
    /\ accepted' = FALSE
    /\ rtype' = NoResult
    /\ max_dims' = 0
    /\ invoked' = NoInvoke

Next ==
    \/ PlanCall
    \/ DirectCall
    \/ ArrayToString_return_type_call
    \/ Range_return_type_call
    \/ GenSeries_return_type_call
    \/ ArrayDims_return_type_call
    \/ Cardinality_return_type_call
    \/ ArrayNdims_return_type_call
    \/ ArrayAppend_return_type_call
    \/ ArrayPrepend_return_type_call
    \/ ArrayConcat_return_type_call
    \/ MakeArray_return_type_call
    \/ Range_invoke_call
    \/ GenSeries_invoke_call
    \/ Return

Spec == Init /\ [][Next]_vars

\* ---- properties ----------------------------------------------------------
ListOf(t) == Wrap("List", t)
ConcatResolved == pc = "resolved" /\ fn = "ArrayConcat"
AllLists(a) == \A i \in 1..Len(a) : Kind(a[i]) = "List"
HasShape(t) == Kind(t) = "List" /\ Elem(t) # Null
StrictlyDeepest(a, i) ==
    \A j \in 1..Len(a) : j # i => list_ndims(a[j]) < list_ndims(a[i])
\* Two arguments before position i that are widened against each other and differ.
ClashBefore(a, i) ==
    \E j, k \in 1..(i - 1) :
        /\ j < k
        /\ HasShape(a[j]) /\ HasShape(a[k])
        /\ list_ndims(a[j]) = list_ndims(a[k])
        /\ a[j] # a[k]

\* C1 as stated: whenever all arguments of array_concat are Lists and one is
\* strictly deeper than all the others, the resolver returns that argument's
\* type, wherever it stands.
C1_DeepestAlwaysReturned ==
    (ConcatResolved /\ AllLists(arg_types)) =>
        \A i \in 1..Len(arg_types) :
            StrictlyDeepest(arg_types, i) => rtype = Ok(arg_types[i])

\* C1 amended: when all arguments are Lists and one, with a non-Null element
\* type, is strictly deeper than all the others, the resolver returns that
\* argument's type wherever it stands, unless it has failed before reaching
\* it: every other outcome is a planning failure, which needs two different
\* equal-depth arguments with non-Null elements before the deepest.
C1_DeepestReturnedUnlessClash ==
    (ConcatResolved /\ AllLists(arg_types)) =>
        \A i \in 1..Len(arg_types) :
            (StrictlyDeepest(arg_types, i) /\ HasShape(arg_types[i])) =>
                \/ rtype = Ok(arg_types[i])
                \/ rtype.tag = "PlanningFailure" /\ ClashBefore(arg_types, i)

\* C1 witness: a shallower List first, the deepest after it, and the deepest returned.
C1_Witness ==
    /\ ConcatResolved
    /\ arg_types = <<ListOf(Int64), ListOf(ListOf(Int64)), ListOf(Utf8)>>
    /\ rtype = Ok(ListOf(ListOf(Int64)))

DropNullLists(a) == SelectSeq(a, LAMBDA t : t # ListOf(Null))
DropNullContainers(a) == SelectSeq(a, LAMBDA t : ~(IsContainer(t) /\ Elem(t) = Null))

\* C2 as stated: the outcome of the array_concat resolver is the outcome on
\* the arguments with every Null-element container (List, LargeList or
\* FixedSizeList of Null) removed.
C2_NullContainersIgnored ==
    ConcatResolved =>
        rtype = ArrayConcat_return_type(DropNullContainers(arg_types)).res

\* C2 amended: the outcome of the array_concat resolver (type or failure, and
\* max_dims) is the outcome on the arguments with every List(Null) removed, so
\* inserting or removing List(Null) arguments anywhere changes nothing.
C2_NullListsIgnored ==
    ConcatResolved =>
        LET r == ArrayConcat_return_type(DropNullLists(arg_types)) IN
        rtype = r.res /\ max_dims = r.max_dims

\* C2 witness: [List(Null), List(Int64)] resolved to List(Int64).
C2_Witness ==
    /\ ConcatResolved
    /\ arg_types = <<ListOf(Null), ListOf(Int64)>>
    /\ rtype = Ok(ListOf(Int64))

\* C3: return_type of every descriptor ends with a type or a planning
\* failure, never a panic, whatever argument tuple reaches it.
C3_ReturnTypeNeverPanics ==
    pc = "resolved" => rtype.tag \in {"Ok", "PlanningFailure"}

RangeFns == {"Range", "GenSeries"}
RangeTuples ==
    {<<Int64>>, <<Int64, Int64>>, <<Int64, Int64, Int64>>, <<Date32, Date32, Interval>>}

return_type_of(f, a) == IF f = "Range" THEN Range_return_type(a) ELSE GenSeries_return_type(a)
invoke_of(f, a) == IF f = "Range" THEN Range_invoke(a) ELSE GenSeries_invoke(a)

\* C5 as stated: for the range-style function of a call there is an argument
\* tuple that passes the signature, is given a type by return_type, and still
\* ends in invoke's execution failure for a first argument without kernel.
C5_ExecutionFailureOnWellTypedPlan ==
    (fn \in RangeFns) =>
        \E a \in ArgTuples :
            /\ accepts(signature(fn), a)
            /\ return_type_of(fn, a).tag = "Ok"
            /\ invoke_of(fn, a).tag = "ExecutionFailure"

\* C5 amended: a call of range / generate_series that passed the signature
\* has a first argument of type Int64 or Date32 and its invoke dispatches to
\* gen_range or gen_range_date; invoke ends in the execution failure, with no
\* kernel, only for a first argument of another type, which the signature
\* does not accept.
C5_WellTypedCallDispatches ==
    (pc = "invoked") =>
        /\ fn \in RangeFns /\ rtype.tag = "Ok"
        /\ (via = "planner" \/ accepted) =>
              /\ Kind(arg_types[1]) \in {"Int64", "Date32"}
              /\ invoked = Kernel(IF Kind(arg_types[1]) = "Int64"
                                     THEN "gen_range" ELSE "gen_range_date",
                                  fn = "GenSeries")
        /\ (invoked.tag = "ExecutionFailure") =>
              /\ ~accepted /\ via = "direct"
              /\ Kind(arg_types[1]) \notin {"Int64", "Date32"}
              /\ invoked.kernel = ""

\* C5 witness: the date form of generate_series dispatched to its kernel.
C5_Witness ==
    /\ pc = "invoked" /\ via = "planner" /\ fn = "GenSeries"
    /\ arg_types = <<Date32, Date32, Interval>>
    /\ invoked = Kernel("gen_range_date", TRUE)

\* C6: make_array's resolver never fails; without arguments it returns
\* List(Null), otherwise List(e) with e the leftmost argument type that is
\* not Null, and List(Null) when every argument is Null.
C6_MakeArrayFirstNonNull ==
    (pc = "resolved" /\ fn = "MakeArray") =>
        /\ rtype.tag = "Ok"
        /\ Len(arg_types) = 0 => rtype.type = ListOf(Null)
        /\ (\A i \in 1..Len(arg_types) : arg_types[i] = Null) => rtype.type = ListOf(Null)
        /\ \A i \in 1..Len(arg_types) :
              (arg_types[i] # Null /\ \A j \in 1..(i - 1) : arg_types[j] = Null)
                  => rtype.type = ListOf(arg_types[i])

\* C6 witness: a Null, then two different non-Null types; the first of them wins.
C6_Witness ==
    /\ pc = "resolved" /\ fn = "MakeArray"
    /\ arg_types = <<Null, Utf8, Int64>>
    /\ rtype = Ok(ListOf(Utf8))

CountFns == {"Cardinality", "ArrayNdims"}
CountFailure(f) ==
    IF f = "Cardinality"
    THEN PlanErr("The cardinality function can only accept List/LargeList/FixedSizeList.")
    ELSE PlanErr("The array_ndims function can only accept List/LargeList/FixedSizeList.")

\* C7: cardinality and array_ndims return UInt64 for every first argument of
\* kind List, LargeList or FixedSizeList, whatever its element type and depth,
\* and for every other first argument the planning failure that names
\* List/LargeList/FixedSizeList.
C7_CountResolvers ==
    (pc = "resolved" /\ fn \in CountFns /\ Len(arg_types) > 0) =>
        IF Kind(arg_types[1]) \in {"List", "LargeList", "FixedSizeList"}
        THEN rtype = Ok(UInt64)
        ELSE rtype = CountFailure(fn)

\* C7 witness: array_ndims of a FixedSizeList of Int64 resolved to UInt64.
C7_Witness ==
    /\ pc = "resolved" /\ fn = "ArrayNdims"
    /\ arg_types = <<Wrap("FixedSizeList", Int64)>>
    /\ rtype = Ok(UInt64)

\* C8: the alias list of the descriptor of every call is non-empty and
\* contains the descriptor's canonical name.
C8_AliasesContainName ==
    (fn \in Functions) =>
        /\ Len(aliases(fn)) > 0
        /\ \E i \in 1..Len(aliases(fn)) : aliases(fn)[i] = name(fn)

\* C8 witness: a call of generate_series, whose struct is named otherwise.
C8_Witness == fn = "GenSeries" /\ pc = "resolve"

\* C9: array_concat's resolver ends in a planning failure whenever some
\* argument is not of kind List, whatever and wherever the others are; it
\* returns a type only when every argument is a List.
C9_NonListFails ==
    ConcatResolved =>
        /\ (\E i \in 1..Len(arg_types) : Kind(arg_types[i]) # "List")
              => rtype.tag = "PlanningFailure"
        /\ rtype.tag = "Ok" => AllLists(arg_types)

\* C9 witness: a LargeList of Null after a List fails the call.
C9_Witness ==
    /\ ConcatResolved
    /\ arg_types = <<ListOf(Int64), Wrap("LargeList", Null)>>
    /\ rtype = PlanErr("The array_concat function can only accept list as the args.")

\* C10: a successful array_concat resolution returns a container exactly when
\* some argument is a List with a non-Null element type, returns bare Null
\* otherwise (no argument, or List(Null) only), and max_dims is the nesting
\* depth of the returned type.
C10_ContainerIffShape ==
    (ConcatResolved /\ rtype.tag = "Ok") =>
        /\ IsContainer(rtype.type) <=> \E i \in 1..Len(arg_types) : HasShape(arg_types[i])
        /\ (\A i \in 1..Len(arg_types) : arg_types[i] = ListOf(Null)) => rtype.type = Null
        /\ max_dims = list_ndims(rtype.type)

\* C10 witness: only List(Null) arguments, resolved to bare Null with max_dims 0.
C10_Witness ==
    /\ ConcatResolved
    /\ arg_types = <<ListOf(Null), ListOf(Null)>>
    /\ rtype = Ok(Null)
    /\ max_dims = 0
====
